---- MODULE Spec2Model ----
(***************************************************************************)
(* Diagnostic Co-Pilot: the submission handler of App.tsx (handleAnalyze)  *)
(* and the request assembler / dispatcher of services/api.ts               *)
(* (fileToGenerativePart, runIntegratedAnalysis).                          *)
(*                                                                         *)
(* Strings are TLA+ strings; a nullable value is <<>> (null) or <<v>>.     *)
(* A thrown value is a record [name, message]; name tells whether it is    *)
(* an instance of Error.                                                   *)
(***************************************************************************)
EXTENDS Integers, Sequences, FiniteSets, TLC

\* ------------------------------------------------------------------ bounds
MaxFiles == 2
MaxCandidates == 2
MaxParts == 2

\* ------------------------------------------------------- nullable values
Null == <<>>
Some(v) == <<v>>
IsNull(x) == x = <<>>
Val(x) == x[1]

\* ------------------------------------------------------ string functions
\* String.prototype.includes
Includes(s, sub) ==
  \E i \in 1..(Len(s) - Len(sub) + 1) : SubSeq(s, i, i + Len(sub) - 1) = sub

WhiteSpace == {" ", "\n", "\t", "\r"}

RECURSIVE TrimStart(_)
TrimStart(s) ==
  IF Len(s) = 0 THEN s
  ELSE IF SubSeq(s, 1, 1) \in WhiteSpace THEN TrimStart(SubSeq(s, 2, Len(s)))
  ELSE s

RECURSIVE TrimEnd(_)
TrimEnd(s) ==
  IF Len(s) = 0 THEN s
  ELSE IF SubSeq(s, Len(s), Len(s)) \in WhiteSpace
       THEN TrimEnd(SubSeq(s, 1, Len(s) - 1))
  ELSE s

\* String.prototype.trim
Trim(s) == TrimEnd(TrimStart(s))

\* position of the first "," of s at or after position i, 0 when there is none
RECURSIVE IndexOfComma(_, _)
IndexOfComma(s, i) ==
  IF i > Len(s) THEN 0
  ELSE IF SubSeq(s, i, i) = "," THEN i
  ELSE IndexOfComma(s, i + 1)

\* s.split(',')[1]: the text between the first and the second comma,
\* null (undefined) when s has no comma
SplitComma1(s) ==
  LET c1 == IndexOfComma(s, 1)
      c2 == IndexOfComma(s, c1 + 1)
  IN  IF c1 = 0 THEN Null
      ELSE Some(SubSeq(s, c1 + 1, IF c2 = 0 THEN Len(s) ELSE c2 - 1))

\* ------------------------------------------------- FileReader.readAsDataURL
B64Alphabet ==
  "ABCDEFGHIJKLMNOPQRSTUVWXYZabcdefghijklmnopqrstuvwxyz0123456789+/"

B64Char(n) == SubSeq(B64Alphabet, n + 1, n + 1)

RECURSIVE Base64(_)
Base64(bytes) ==
  IF Len(bytes) = 0 THEN ""
  ELSE IF Len(bytes) = 1 THEN
    B64Char(bytes[1] \div 4) \o B64Char((bytes[1] % 4) * 16) \o "=="
  ELSE IF Len(bytes) = 2 THEN
    B64Char(bytes[1] \div 4)
      \o B64Char((bytes[1] % 4) * 16 + bytes[2] \div 16)
      \o B64Char((bytes[2] % 16) * 4) \o "="
  ELSE
    B64Char(bytes[1] \div 4)
      \o B64Char((bytes[1] % 4) * 16 + bytes[2] \div 16)
      \o B64Char((bytes[2] % 16) * 4 + bytes[3] \div 64)
      \o B64Char(bytes[3] % 64)
      \o Base64(SubSeq(bytes, 4, Len(bytes)))

ReadAsDataURL(file) == "data:" \o file.type \o ";base64," \o Base64(file.bytes)

\* the value fileToGenerativePart resolves with when the read succeeds
FileToGenerativePart(file, mimeType) ==
  LET base64data == ReadAsDataURL(file)
      base64DataOnly == SplitComma1(base64data)
  IN  [inlineData |-> [data |-> base64DataOnly, mimeType |-> mimeType]]

\* --------------------------------------------------------- thrown values
Err(m) == [name |-> "Error", message |-> m]
TypeErr(m) == [name |-> "TypeError", message |-> m]
SyntaxErr(m) == [name |-> "SyntaxError", message |-> m]
\* the ProgressEvent a failed FileReader hands to reader.onerror = reject
ReadFailure == [name |-> "ProgressEvent", message |-> ""]

\* err instanceof Error
InstanceOfError(e) == e.name \in {"Error", "TypeError", "SyntaxError"}

\* String(err) of a value that is not an Error
StringOf(e) == "[object " \o e.name \o "]"

\* ------------------------------------------------------- message literals
MsgAddKey == "Please add an API Key first."
MsgKeyMissing == "API Key is missing. Please configure it in settings."
MsgUpstreamGeneric == "Failed to fetch from LLM API"
MsgNoResponse == "No response generated."
MsgNetwork ==
  "Network error or CORS issue. Try using a proxy or ensure API key is valid."
MsgFallback == "An error occurred during analysis."
\* what the engine reports for data.candidates[0].content with candidates = []
MsgUndefinedContent == "Cannot read properties of undefined (reading 'content')"
\* what the engine reports for reader.result.split with reader.result = null
MsgNullSplit == "Cannot read properties of null (reading 'split')"
\* what response.json() rejects with on a body that is not JSON
MsgBadJson == "Unexpected token < in JSON at position 0"

HfCustom == "hf-space:custom"
DefaultHfSpace == "hssling/diagnostic-copilot-api"

\* ------------------------------------------------------------ input sets
HistoryTexts == {"", "fever"}
ExaminationTexts == {"", " ", "rash"}
ApiKeys == {"", "AIZA1"}
ModelOptions == {"gemini-2.5-flash", HfCustom}
SpaceIds == {DefaultHfSpace}

FilePool ==
  { [name |-> "scan.png", type |-> "image/png", bytes |-> <<77>>],
    [name |-> "labs.pdf", type |-> "application/pdf", bytes |-> <<77, 97, 110, 33>>] }

\* the Blob the MediaRecorder's onstop handler builds
Recordings == { [type |-> "audio/webm", bytes |-> <<26, 69>>] }

\* messages a rejected fetch carries (Chromium, WebKit)
TransportMessages == {"Failed to fetch", "Load failed"}

\* error.message values of a non-success response body
UpstreamMessages == {"quota exceeded", "Unable to fetch model metadata", ""}

HeadedText == "## Integrated Analysis\nok"
ResultTexts == {HeadedText, "plain", ""}

\* ------------------------------------------------------- response bodies
NotJson == [json |-> FALSE, value |-> Null]
Json(v) == [json |-> TRUE, value |-> Some(v)]

\* { }, { error: { } }, { error: { message: m } }, and a non-JSON body
ErrorBodies ==
  {NotJson, Json([error |-> Null]), Json([error |-> Some([message |-> Null])])}
    \cup {Json([error |-> Some([message |-> Some(m)])]) : m \in UpstreamMessages}

SeqsUpTo(S, n) == UNION {[1..k -> S] : k \in 0..n}

TextParts == {[text |-> t] : t \in ResultTexts}
\* later parts are never read; they are copies of one part
OtherParts == {[text |-> HeadedText]}
PartLists ==
  {ps \in SeqsUpTo(TextParts \cup OtherParts, MaxParts) :
     \A i \in 2..Len(ps) : ps[i] \in OtherParts}
Candidates == {[content |-> [parts |-> ps]] : ps \in PartLists}
\* later candidates are never read; they are copies of a one-part candidate
OtherCandidates == {[content |-> [parts |-> <<p>>]] : p \in OtherParts}
CandidateLists ==
  {cs \in SeqsUpTo(Candidates, MaxCandidates) :
     \A i \in 2..Len(cs) : cs[i] \in OtherCandidates /\ cs[i] = cs[2]}

\* { }, { candidates: [...] }, and a non-JSON body
SuccessBodies ==
  {NotJson, Json([candidates |-> Null])}
    \cup {Json([candidates |-> Some(cs)]) : cs \in CandidateLists}

FetchOutcomes ==
  {[kind |-> "reject", ok |-> FALSE, err |-> TypeErr(m), body |-> NotJson] :
      m \in TransportMessages}
    \cup {[kind |-> "response", ok |-> FALSE, err |-> TypeErr(""), body |-> b] :
      b \in ErrorBodies}
    \cup {[kind |-> "response", ok |-> TRUE, err |-> TypeErr(""), body |-> b] :
      b \in SuccessBodies}

\* ---------------------------------------------------------------- prompt
PromptTemplate ==
  "You are a highly advanced Multi-Modal Diagnostic Co-Pilot Medical AI.\n"
  \o "Your task is to analyze the provided clinical data (History, Examination, Diagnostics, Scans, Audio constraints) and output a structured, integrated clinical report using Markdown.\n"
  \o "Format your output with the following major sections exactly (using ## headings): \n"
  \o "## Integrated Analysis\n"
  \o "## Decision Making\n"
  \o "## Management & Treatment Plan\n"
  \o "\n"

PromptText(request) ==
  PromptTemplate
    \o (IF Trim(request.history) # ""
        THEN "### History:\n" \o request.history \o "\n\n" ELSE "")
    \o (IF Trim(request.examination) # ""
        THEN "### Examination:\n" \o request.examination \o "\n\n" ELSE "")

\* ------------------------------------------------------------- dispatch
ApiUrl(request) ==
  "https://generativelanguage.googleapis.com/v1beta/models/" \o request.model
    \o ":generateContent?key=" \o request.apiKey

Payload(ps) ==
  [contents |-> <<[role |-> "user", parts |-> ps]>>,
   generationConfig |-> [temperature |-> "0.2", maxOutputTokens |-> 2048]]

\* the catch clause around fetch and the response handling
CatchRethrow(e) ==
  IF InstanceOfError(e) /\ Includes(e.message, "fetch")
  THEN Err(MsgNetwork)
  ELSE e

\* what the !response.ok branch throws for a parsed or unparsable body
ErrorOfBody(body) ==
  IF ~body.json THEN SyntaxErr(MsgBadJson)
  ELSE LET errParts == Val(body.value)
           message == IF IsNull(errParts.error) THEN Null
                      ELSE Val(errParts.error).message
       IN  IF IsNull(message) \/ Val(message) = ""
           THEN Err(MsgUpstreamGeneric)
           ELSE Err(Val(message))

SelectText_Join(body) ==
  IF ~body.json THEN [returns |-> FALSE, text |-> "", err |-> SyntaxErr(MsgBadJson)]
  ELSE LET data == Val(body.value)
       IN  IF IsNull(data.candidates)
           THEN [returns |-> FALSE, text |-> "", err |-> Err(MsgNoResponse)]
           ELSE LET cs == Val(data.candidates)
                    ps == cs[1].content.parts
                IN  IF Len(cs) = 0
                    THEN [returns |-> FALSE, text |-> "",
                          err |-> TypeErr(MsgUndefinedContent)]
                    ELSE IF Len(ps) > 0
                    THEN [returns |-> TRUE,
                          text |-> IF Len(ps) > 1 THEN ps[1].text \o ps[2].text
                                   ELSE ps[1].text,
                          err |-> Err("")]
                    ELSE [returns |-> FALSE, text |-> "", err |-> Err(MsgNoResponse)]

\* the candidate selection: [TRUE, text] when it returns, [FALSE, e] when
\* it throws
SelectText(body) ==
  IF ~body.json THEN [returns |-> FALSE, text |-> "", err |-> SyntaxErr(MsgBadJson)]
  ELSE LET data == Val(body.value)
       IN  IF IsNull(data.candidates)
           THEN [returns |-> FALSE, text |-> "", err |-> Err(MsgNoResponse)]
           ELSE LET cs == Val(data.candidates)
                IN  IF Len(cs) = 0
                    THEN [returns |-> FALSE, text |-> "",
                          err |-> TypeErr(MsgUndefinedContent)]
                    ELSE IF Len(cs[1].content.parts) > 0
                    THEN [returns |-> TRUE, text |-> cs[1].content.parts[1].text,
                          err |-> Err("")]
                    ELSE [returns |-> FALSE, text |-> "", err |-> Err(MsgNoResponse)]

\* the diagnostic record of the data-donation log
DonationRecord(request) ==
  [historyLength |-> Len(request.history),
   examLength |-> Len(request.examination),
   fileCount |-> Len(request.files),
   audioAttached |-> ~IsNull(request.audioBlob)]

\* the message handleAnalyze's catch shows
ErrorText(err) ==
  IF InstanceOfError(err) THEN err.message
  ELSE IF StringOf(err) # "" THEN StringOf(err) ELSE MsgFallback

\* ----------------------------------------------------------------- state
VARIABLES
  history, examination, files, audioBlob,       \* input state of App
  apiKey, modelType, customHfSpace, donateData, \* settings state
  isSettingsOpen,
  isLoading, analysisResult, error,             \* analysis state
  pc,        \* where the running handleAnalyze call stands, "idle" when none
  request,   \* the AnalysisRequest handed to runIntegratedAnalysis
  parts,     \* the parts array under construction
  idx,       \* position of the for-of loop over request.files
  thrown,    \* the value runIntegratedAnalysis rejected with
  result,    \* the value runIntegratedAnalysis resolved with
  response,  \* how the fetch settled
  wire,      \* the requests handed to fetch by this call
  sink,      \* the records handed to console.log by this call
  trace,     \* the asynchronous operations of this call, in order
  outcome,   \* how this handleAnalyze call ended
  uncaught,  \* the exceptions of this call that no handler caught
  prev       \* the observations of an earlier call, kept for comparison

uiVars == <<history, examination, files, audioBlob, apiKey, modelType,
            customHfSpace, donateData, isSettingsOpen>>
viewVars == <<isLoading, analysisResult, error>>
callVars == <<pc, request, parts, idx, thrown, result, response, wire, sink,
              trace, outcome, uncaught>>
vars == <<uiVars, viewVars, callVars, prev>>

NoRequest ==
  [history |-> "", examination |-> "", files |-> <<>>, audioBlob |-> Null,
   apiKey |-> "", model |-> "", donateData |-> FALSE]

NoCall ==
  /\ pc = "idle"
  /\ request = NoRequest
  /\ parts = <<>>
  /\ idx = 0
  /\ thrown = Null
  /\ result = Null
  /\ response = Null
  /\ wire = <<>>
  /\ sink = <<>>
  /\ trace = <<>>
  /\ outcome = "none"
  /\ uncaught = <<>>

Init ==
  /\ history = ""
  /\ examination = ""
  /\ files = <<>>
  /\ audioBlob = Null
  /\ apiKey \in ApiKeys
  /\ modelType \in ModelOptions
  /\ customHfSpace \in SpaceIds
  /\ donateData = FALSE
  /\ isSettingsOpen = FALSE
  /\ isLoading = FALSE
  /\ analysisResult = Null
  /\ error = Null
  /\ NoCall
  /\ prev = Null

\* ------------------------------------------------------- form and settings
\* The form is edited between submissions: the submit button is disabled
\* while isLoading, and a running call works on the request captured at the
\* click, so edits made meanwhile cannot reach it.
SetHistory ==
  /\ pc = "idle"
  /\ \E v \in HistoryTexts : history' = v
  /\ UNCHANGED <<prev, uncaught, examination, files, audioBlob, apiKey, modelType,
                 customHfSpace, donateData, isSettingsOpen, viewVars, callVars>>

SetExamination ==
  /\ pc = "idle"
  /\ \E v \in ExaminationTexts : examination' = v
  /\ UNCHANGED <<prev, uncaught, history, files, audioBlob, apiKey, modelType,
                 customHfSpace, donateData, isSettingsOpen, viewVars, callVars>>

HandleFileSelect ==
  /\ pc = "idle"
  /\ Len(files) < MaxFiles
  /\ \E f \in FilePool : files' = files \o <<f>>
  /\ UNCHANGED <<prev, uncaught, history, examination, audioBlob, apiKey, modelType,
                 customHfSpace, donateData, isSettingsOpen, viewVars, callVars>>

RemoveFile ==
  /\ pc = "idle"
  /\ \E index \in 1..Len(files) :
       files' = SubSeq(files, 1, index - 1) \o SubSeq(files, index + 1, Len(files))
  /\ UNCHANGED <<prev, uncaught, history, examination, audioBlob, apiKey, modelType,
                 customHfSpace, donateData, isSettingsOpen, viewVars, callVars>>

RecorderStop ==
  /\ pc = "idle"
  /\ \E b \in Recordings : audioBlob' = Some(b)
  /\ UNCHANGED <<prev, uncaught, history, examination, files, apiKey, modelType,
                 customHfSpace, donateData, isSettingsOpen, viewVars, callVars>>

HandleClearAudio ==
  /\ pc = "idle"
  /\ audioBlob' = Null
  /\ UNCHANGED <<prev, uncaught, history, examination, files, apiKey, modelType,
                 customHfSpace, donateData, isSettingsOpen, viewVars, callVars>>

SetApiKey ==
  /\ pc = "idle"
  /\ \E v \in ApiKeys : apiKey' = v
  /\ UNCHANGED <<prev, uncaught, history, examination, files, audioBlob, modelType,
                 customHfSpace, donateData, isSettingsOpen, viewVars, callVars>>

SetModelType ==
  /\ pc = "idle"
  /\ \E v \in ModelOptions : modelType' = v
  /\ UNCHANGED <<prev, uncaught, history, examination, files, audioBlob, apiKey,
                 customHfSpace, donateData, isSettingsOpen, viewVars, callVars>>

SetCustomHfSpace ==
  /\ pc = "idle"
  /\ modelType = HfCustom
  /\ \E v \in SpaceIds : customHfSpace' = v
  /\ UNCHANGED <<prev, uncaught, history, examination, files, audioBlob, apiKey, modelType,
                 donateData, isSettingsOpen, viewVars, callVars>>

SetDonateData ==
  /\ pc = "idle"
  /\ \E v \in BOOLEAN : donateData' = v
  /\ UNCHANGED <<prev, uncaught, history, examination, files, audioBlob, apiKey, modelType,
                 customHfSpace, isSettingsOpen, viewVars, callVars>>

SetIsSettingsOpen ==
  /\ pc = "idle"
  /\ \E v \in BOOLEAN : isSettingsOpen' = v
  /\ UNCHANGED <<prev, uncaught, history, examination, files, audioBlob, apiKey, modelType,
                 customHfSpace, donateData, viewVars, callVars>>

\* ------------------------------------------------------------ handleAnalyze
Ev(e, n) == [ev |-> e, n |-> n]

Push_Unshift(ps, part) == <<ps[1], part>> \o Tail(ps)

\* parts.push(part)
Push(ps, part) == Append(ps, part)

IsHfModel == modelType = HfCustom
ComputedModel == IF IsHfModel THEN "hf-space:" \o customHfSpace ELSE modelType

MissingKey_Never == FALSE

\* the credential precondition of handleAnalyze
MissingKey == apiKey = "" /\ ~IsHfModel

\* the click is refused: the settings panel opens and the handler returns
HandleAnalyzeReject ==
  /\ pc = "idle"
  /\ MissingKey
  /\ isSettingsOpen' = TRUE
  /\ error' = Some(MsgAddKey)
  /\ outcome' = "rejected"
  /\ pc' = "done"
  /\ UNCHANGED <<prev, uncaught, history, examination, files, audioBlob, apiKey, modelType,
                 customHfSpace, donateData, isLoading, analysisResult,
                 request, parts, idx, thrown, result, response, wire, sink,
                 trace>>

HandleAnalyzeSubmit_ClearsResult ==
  /\ pc = "idle"
  /\ ~MissingKey
  /\ isLoading' = TRUE
  /\ error' = Null
  /\ analysisResult' = Null
  /\ request' = [history |-> history, examination |-> examination,
                 files |-> files, audioBlob |-> audioBlob, apiKey |-> apiKey,
                 model |-> ComputedModel, donateData |-> donateData]
  /\ pc' = "call"
  /\ UNCHANGED <<prev, uncaught, uiVars, parts, idx, thrown, result, response,
                 wire, sink, trace, outcome>>

\* the click is accepted: runIntegratedAnalysis is called with the form
HandleAnalyzeSubmit ==
  /\ pc = "idle"
  /\ ~MissingKey
  /\ isLoading' = TRUE
  /\ error' = Null
  /\ request' = [history |-> history, examination |-> examination,
                 files |-> files, audioBlob |-> audioBlob, apiKey |-> apiKey,
                 model |-> ComputedModel, donateData |-> donateData]
  /\ pc' = "call"
  /\ UNCHANGED <<prev, uncaught, uiVars, analysisResult, parts, idx, thrown, result, response,
                 wire, sink, trace, outcome>>

\* --------------------------------------------------- runIntegratedAnalysis
\* the credential check, the prompt and the initial parts array
Enter ==
  /\ pc = "call"
  /\ IF request.apiKey = ""
     THEN /\ thrown' = Some(Err(MsgKeyMissing))
          /\ pc' = "catch"
          /\ UNCHANGED <<parts, idx>>
     ELSE /\ parts' = <<[text |-> PromptText(request)]>>
          /\ idx' = 1
          /\ pc' = "files"
          /\ UNCHANGED thrown
  /\ UNCHANGED <<prev, uncaught, uiVars, viewVars, request, result, response, wire, sink,
                 trace, outcome>>

\* the head of the loop over request.files: the next read starts, or the
\* loop ends
NextFile ==
  /\ pc = "files"
  /\ IF idx <= Len(request.files)
     THEN /\ trace' = Append(trace, Ev("read", idx))
          /\ pc' = "reading"
     ELSE /\ pc' = "audio"
          /\ UNCHANGED trace
  /\ UNCHANGED <<prev, uncaught, uiVars, viewVars, request, parts, idx, thrown, result,
                 response, wire, sink, outcome>>

FileRead_Skips ==
  /\ pc = "reading"
  /\ \E ok \in BOOLEAN :
       IF ok
       THEN /\ parts' = Push(parts, FileToGenerativePart(request.files[idx],
                                                        request.files[idx].type))
            /\ trace' = Append(trace, Ev("loaded", idx))
       ELSE /\ trace' = Append(trace, Ev("failed", idx))
            /\ UNCHANGED parts
  /\ idx' = idx + 1
  /\ pc' = "files"
  /\ UNCHANGED <<prev, uncaught, uiVars, viewVars, request, thrown, result, response,
                 wire, sink, outcome>>

\* the read of request.files[idx] settles: onloadend resolves; on a failure
\* onerror rejects with the event, and onloadend, which runs after it, throws
\* on the null reader.result, an exception no one catches
FileRead ==
  /\ pc = "reading"
  /\ \E ok \in BOOLEAN :
       IF ok
       THEN /\ parts' = Push(parts, FileToGenerativePart(request.files[idx],
                                                        request.files[idx].type))
            /\ trace' = Append(trace, Ev("loaded", idx))
            /\ idx' = idx + 1
            /\ pc' = "files"
            /\ UNCHANGED <<thrown, uncaught>>
       ELSE /\ thrown' = Some(ReadFailure)
            /\ trace' = Append(trace, Ev("failed", idx))
            /\ uncaught' = Append(uncaught, TypeErr(MsgNullSplit))
            /\ pc' = "catch"
            /\ UNCHANGED <<parts, idx>>
  /\ UNCHANGED <<prev, uiVars, viewVars, request, result, response, wire, sink,
                 outcome>>

\* if (request.audioBlob): the read of the recording starts, or is skipped
NextAudio ==
  /\ pc = "audio"
  /\ IF ~IsNull(request.audioBlob)
     THEN /\ trace' = Append(trace, Ev("readAudio", 0))
          /\ pc' = "readingAudio"
     ELSE /\ pc' = "donate"
          /\ UNCHANGED trace
  /\ UNCHANGED <<prev, uncaught, uiVars, viewVars, request, parts, idx, thrown, result,
                 response, wire, sink, outcome>>

\* the read of request.audioBlob settles
AudioRead ==
  /\ pc = "readingAudio"
  /\ \E ok \in BOOLEAN :
       IF ok
       THEN /\ parts' = Push(parts, FileToGenerativePart(Val(request.audioBlob),
                                                        Val(request.audioBlob).type))
            /\ trace' = Append(trace, Ev("loadedAudio", 0))
            /\ pc' = "donate"
            /\ UNCHANGED <<thrown, uncaught>>
       ELSE /\ thrown' = Some(ReadFailure)
            /\ trace' = Append(trace, Ev("failedAudio", 0))
            /\ uncaught' = Append(uncaught, TypeErr(MsgNullSplit))
            /\ pc' = "catch"
            /\ UNCHANGED parts
  /\ UNCHANGED <<prev, uiVars, viewVars, request, idx, result, response, wire, sink,
                 outcome>>

Donate_Annotates ==
  /\ pc = "donate"
  /\ IF request.donateData
     THEN /\ sink' = Append(sink, DonationRecord(request))
          /\ trace' = Append(trace, Ev("log", 0))
          /\ parts' = Push(parts, [text |-> "donated"])
     ELSE UNCHANGED <<sink, trace, parts>>
  /\ pc' = "dispatch"
  /\ UNCHANGED <<prev, uncaught, uiVars, viewVars, request, idx, thrown, result,
                 response, wire, outcome>>

\* if (request.donateData) console.log(...)
Donate ==
  /\ pc = "donate"
  /\ IF request.donateData
     THEN /\ sink' = Append(sink, DonationRecord(request))
          /\ trace' = Append(trace, Ev("log", 0))
     ELSE UNCHANGED <<sink, trace>>
  /\ pc' = "dispatch"
  /\ UNCHANGED <<prev, uncaught, uiVars, viewVars, request, parts, idx, thrown, result,
                 response, wire, outcome>>

\* fetch(API_URL, { method: "POST", headers, body: JSON.stringify(payload) })
Fetch ==
  /\ pc = "dispatch"
  /\ wire' = Append(wire, [url |-> ApiUrl(request), method |-> "POST",
                           body |-> Payload(parts)])
  /\ trace' = Append(trace, Ev("fetch", 0))
  /\ pc' = "fetch"
  /\ UNCHANGED <<prev, uncaught, uiVars, viewVars, request, parts, idx, thrown, result,
                 response, sink, outcome>>

\* the fetch settles: it rejects, or resolves with a response
FetchSettle ==
  /\ pc = "fetch"
  /\ \E o \in FetchOutcomes :
       /\ response' = Some(o)
       /\ IF o.kind = "reject"
          THEN /\ thrown' = Some(CatchRethrow(o.err))
               /\ pc' = "catch"
          ELSE /\ pc' = IF o.ok THEN "json" ELSE "errjson"
               /\ UNCHANGED thrown
  /\ UNCHANGED <<prev, uncaught, uiVars, viewVars, request, parts, idx, result, wire, sink,
                 trace, outcome>>

\* if (!response.ok): the body is read and an error is thrown
ErrorResponse ==
  /\ pc = "errjson"
  /\ thrown' = Some(CatchRethrow(ErrorOfBody(Val(response).body)))
  /\ pc' = "catch"
  /\ UNCHANGED <<prev, uncaught, uiVars, viewVars, request, parts, idx, result, response,
                 wire, sink, trace, outcome>>

\* the body of a success response is read and the text is selected
OkResponse ==
  /\ pc = "json"
  /\ LET sel == SelectText(Val(response).body)
     IN  IF sel.returns
         THEN /\ result' = Some(sel.text)
              /\ pc' = "return"
              /\ UNCHANGED thrown
         ELSE /\ thrown' = Some(CatchRethrow(sel.err))
              /\ pc' = "catch"
              /\ UNCHANGED result
  /\ UNCHANGED <<prev, uncaught, uiVars, viewVars, request, parts, idx, response, wire, sink,
                 trace, outcome>>

\* ------------------------------------------- handleAnalyze, after the await
\* setAnalysisResult(result), then finally
HandleAnalyzeResolve ==
  /\ pc = "return"
  /\ analysisResult' = result
  /\ isLoading' = FALSE
  /\ outcome' = "returned"
  /\ pc' = "done"
  /\ UNCHANGED <<prev, uncaught, uiVars, error, request, parts, idx, thrown, result, response,
                 wire, sink, trace>>

\* catch (err) setError(...), then finally
HandleAnalyzeCatch ==
  /\ pc = "catch"
  /\ error' = Some(ErrorText(Val(thrown)))
  /\ isLoading' = FALSE
  /\ outcome' = "threw"
  /\ pc' = "done"
  /\ UNCHANGED <<prev, uncaught, uiVars, analysisResult, request, parts, idx, thrown, result,
                 response, wire, sink, trace>>

\* the handler has returned; its locals are gone
ClearCall ==
  /\ pc = "done"
  /\ pc' = "idle"
  /\ request' = NoRequest
  /\ parts' = <<>>
  /\ idx' = 0
  /\ thrown' = Null
  /\ result' = Null
  /\ response' = Null
  /\ wire' = <<>>
  /\ sink' = <<>>
  /\ trace' = <<>>
  /\ outcome' = "none"
  /\ uncaught' = <<>>
  /\ UNCHANGED <<uiVars, viewVars>>

Return == ClearCall /\ UNCHANGED prev

Next ==
  \/ SetHistory
  \/ SetExamination
  \/ HandleFileSelect
  \/ RemoveFile
  \/ RecorderStop
  \/ HandleClearAudio
  \/ SetApiKey
  \/ SetModelType
  \/ SetCustomHfSpace
  \/ SetDonateData
  \/ SetIsSettingsOpen
  \/ HandleAnalyzeReject
  \/ HandleAnalyzeSubmit
  \/ Enter
  \/ NextFile
  \/ FileRead
  \/ NextAudio
  \/ AudioRead
  \/ Donate
  \/ Fetch
  \/ FetchSettle
  \/ ErrorResponse
  \/ OkResponse
  \/ HandleAnalyzeResolve
  \/ HandleAnalyzeCatch
  \/ Return

Spec == Init /\ [][Next]_vars

\* ---------------------------------------------------------------- render
\* {error && (...)}: the error box is rendered
ErrorShown == ~IsNull(error) /\ Val(error) # ""

\* {analysisResult && (renderMarkdown(analysisResult))}: the result is rendered
ResultShown == ~IsNull(analysisResult) /\ Val(analysisResult) # ""

\* ------------------------------------------------- pairs of submissions
\* Two submissions of one form that differ at most in donateData, the second
\* meeting the environment of the first: the same reads fail, the fetch
\* settles the same way.

\* what is observed of a finished handleAnalyze call
Observation ==
  [form |-> <<history, examination, files, audioBlob, apiKey, modelType,
              customHfSpace>>,
   donateData |-> donateData,
   wire |-> wire, trace |-> trace, response |-> response,
   outcome |-> outcome, thrown |-> thrown, result |-> result,
   uncaught |-> uncaught,
   isSettingsOpen |-> isSettingsOpen, isLoading |-> isLoading,
   analysisResult |-> analysisResult, error |-> error]

IsReadOutcome(e) == e.ev \in {"loaded", "failed", "loadedAudio", "failedAudio"}
ReadOutcomes(tr) == SelectSeq(tr, IsReadOutcome)

IsPrefix(a, b) == Len(a) <= Len(b) /\ SubSeq(b, 1, Len(a)) = a

\* the environment of this call repeats that of the recorded call
Replayed ==
  \/ IsNull(prev)
  \/ /\ IsPrefix(ReadOutcomes(trace'), ReadOutcomes(Val(prev).trace))
     /\ IsNull(response') \/ response' = Val(prev).response

\* the second click of a pair comes after donateData was toggled
Toggled == IsNull(prev) \/ Val(prev).donateData # donateData

PairReject == HandleAnalyzeReject /\ Toggled
PairSubmit == HandleAnalyzeSubmit /\ Toggled
ReplayFileRead == FileRead /\ Replayed
ReplayAudioRead == AudioRead /\ Replayed
ReplayFetchSettle == FetchSettle /\ Replayed

\* the handler has returned; the first call's observations are kept
ReturnRecord ==
  /\ ClearCall
  /\ prev' = IF IsNull(prev) THEN Some(Observation) ELSE prev

InitPair ==
  /\ history \in HistoryTexts
  /\ examination \in ExaminationTexts
  /\ files \in SeqsUpTo(FilePool, MaxFiles)
  /\ audioBlob \in {Null} \cup {Some(b) : b \in Recordings}
  /\ apiKey \in ApiKeys
  /\ modelType \in ModelOptions
  /\ customHfSpace \in SpaceIds
  /\ donateData \in BOOLEAN
  /\ isSettingsOpen = FALSE
  /\ isLoading = FALSE
  /\ analysisResult = Null
  /\ error = Null
  /\ NoCall
  /\ prev = Null

NextPair ==
  \/ SetDonateData
  \/ PairReject
  \/ PairSubmit
  \/ Enter
  \/ NextFile
  \/ ReplayFileRead
  \/ NextAudio
  \/ ReplayAudioRead
  \/ Donate
  \/ Fetch
  \/ ReplayFetchSettle
  \/ ErrorResponse
  \/ OkResponse
  \/ HandleAnalyzeResolve
  \/ HandleAnalyzeCatch
  \/ ReturnRecord

SpecPair == InitPair /\ [][NextPair]_vars

\* ================================================================ claims
\* the parts array is complete once the loop and the audio branch are passed
Assembled == pc \in {"donate", "dispatch"} \/ wire # <<>>

\* the response the call received, when it received one
Responded == ~IsNull(response) /\ Val(response).kind = "response"
Body == Val(response).body

\* the call has failed with the value Val(thrown)
Failed == ~IsNull(thrown)

\* the selector of the request is of the hf-space family
HfRequest == SubSeq(request.model, 1, 9) = "hf-space:"

\* C1: once the parts array is assembled it is the instruction text, then
\* one encoded part per attachment in the attachments' order, then the
\* encoded audio iff there is audio: 1 + |files| + (audio ? 1 : 0) elements.
C1_PartsExact ==
  Assembled =>
    LET n == Len(request.files)
        a == IF IsNull(request.audioBlob) THEN 0 ELSE 1
    IN  /\ Len(parts) = 1 + n + a
        /\ parts[1] = [text |-> PromptText(request)]
        /\ \A i \in 1..n :
             /\ parts[i + 1].inlineData.mimeType = request.files[i].type
             /\ parts[i + 1].inlineData.data = Some(Base64(request.files[i].bytes))
        /\ a = 1 =>
             /\ parts[n + 2].inlineData.mimeType = Val(request.audioBlob).type
             /\ parts[n + 2].inlineData.data =
                  Some(Base64(Val(request.audioBlob).bytes))
        /\ \A i \in 1..Len(wire) : wire[i].body.contents[1].parts = parts

C1_Witness ==
  /\ pc = "fetch"
  /\ Len(request.files) = 2
  /\ request.files[1] # request.files[2]
  /\ ~IsNull(request.audioBlob)
  /\ Len(parts) = 4

\* C2: with an empty credential and a selector other than hf-space:custom
\* the click is refused at once: no fetch, isLoading not set, the settings
\* panel open and the error message shown.
C2_RejectedBeforeNetwork ==
  (pc # "idle" /\ apiKey = "" /\ modelType # HfCustom) =>
    /\ pc = "done"
    /\ outcome = "rejected"
    /\ wire = <<>>
    /\ trace = <<>>
    /\ ~isLoading
    /\ isSettingsOpen
    /\ error = Some(MsgAddKey)

C2_Witness ==
  /\ pc = "done"
  /\ outcome = "rejected"
  /\ apiKey = ""
  /\ modelType # HfCustom
  /\ Len(files) > 0

\* C3: a submission with the hf-space selector and an empty credential
\* passes both credential checks: it never fails with the missing-credential
\* error.
C3_HfAnonymousAccepted ==
  (pc # "idle" /\ modelType = HfCustom /\ apiKey = "") =>
    thrown # Some(Err(MsgKeyMissing))

\* error.message of a parsed non-success body, null when it has none
UpstreamMessage(body) ==
  IF ~body.json THEN Null
  ELSE IF IsNull(Val(body.value).error) THEN Null
  ELSE Val(Val(body.value).error).message

\* C4: a non-success response whose body carries a non-empty upstream
\* message m makes the call fail with an error whose message is exactly m.
C4_UpstreamMessageVerbatim ==
  (Failed /\ Responded /\ ~Val(response).ok
     /\ ~IsNull(UpstreamMessage(Body)) /\ Val(UpstreamMessage(Body)) # "") =>
    Val(thrown) = Err(Val(UpstreamMessage(Body)))

\* C5: a non-success response whose body carries no upstream message makes
\* the call fail with the generic upstream-failure message, not with the
\* network-error message.
C5_GenericUpstreamMessage ==
  (Failed /\ Responded /\ ~Val(response).ok /\ Body.json
     /\ (IsNull(UpstreamMessage(Body)) \/ Val(UpstreamMessage(Body)) = "")) =>
    /\ Val(thrown) = Err(MsgUpstreamGeneric)
    /\ Val(thrown).message # MsgNetwork

\* the success body has no generated content: candidates absent, an empty
\* list, or a first candidate with no parts
LacksContent(body) ==
  /\ body.json
  /\ LET candidates == Val(body.value).candidates
     IN  \/ IsNull(candidates)
         \/ Len(Val(candidates)) = 0
         \/ Len(Val(candidates)[1].content.parts) = 0

\* C6: a success response that lacks generated content makes the call fail
\* with "No response generated." and with nothing else.
C6_EmptyResultError ==
  (Responded /\ Val(response).ok /\ LacksContent(Body) /\ pc # "json") =>
    /\ IsNull(result)
    /\ thrown = Some(Err(MsgNoResponse))

\* C7: when the fetch rejects, whatever its message, the call fails with the
\* network error and never with the rejection itself.
C7_NetworkErrorOnReject ==
  (~IsNull(response) /\ Val(response).kind = "reject") =>
    thrown = Some(Err(MsgNetwork))

\* the success body has a first candidate with at least one part
HasContent(body) ==
  /\ body.json
  /\ ~IsNull(Val(body.value).candidates)
  /\ Len(Val(Val(body.value).candidates)) > 0
  /\ Len(Val(Val(body.value).candidates)[1].content.parts) > 0

FirstText(body) == Val(Val(body.value).candidates)[1].content.parts[1].text

\* C8: a success response with content makes the call return exactly the
\* text of the first part of the first candidate, which handleAnalyze then
\* stores, whatever the other candidates and parts and whatever its headings.
C8_FirstTextUnmodified ==
  (Responded /\ Val(response).ok /\ HasContent(Body) /\ pc # "json") =>
    /\ IsNull(thrown)
    /\ result = Some(FirstText(Body))
    /\ pc = "done" => analysisResult = Some(FirstText(Body))

C8_Witness ==
  /\ pc = "done"
  /\ Responded
  /\ Val(response).ok
  /\ HasContent(Body)
  /\ Len(Val(Val(Body.value).candidates)) = 2
  /\ Len(Val(Val(Body.value).candidates)[1].content.parts) = 2
  /\ FirstText(Body) = "plain"
  /\ Val(Val(Body.value).candidates)[1].content.parts[2].text # "plain"
  /\ Val(Val(Body.value).candidates)[2].content.parts[1].text # "plain"
  /\ analysisResult = Some("plain")

GeminiHost == "generativelanguage.googleapis.com"

\* C9: a request of the hf-space family goes to another endpoint than one of
\* the default family, and only the default family's URL carries the
\* credential as a query parameter.
C9_EndpointPerFamily ==
  \A i \in 1..Len(wire) :
    IF HfRequest
    THEN /\ ~Includes(wire[i].url, GeminiHost)
         /\ ~Includes(wire[i].url, "key=" \o request.apiKey)
    ELSE /\ Includes(wire[i].url, GeminiHost)
         /\ Includes(wire[i].url, "?key=" \o request.apiKey)

\* the position of the first event named e in the trace, 0 when there is none
RECURSIVE IndexOfEvent(_, _, _)
IndexOfEvent(tr, e, i) ==
  IF i > Len(tr) THEN 0
  ELSE IF tr[i].ev = e THEN i
  ELSE IndexOfEvent(tr, e, i + 1)

\* this call is the second of a pair that differs in donateData only
PairedCall ==
  /\ ~IsNull(prev)
  /\ pc # "idle"
  /\ Val(prev).form = <<history, examination, files, audioBlob, apiKey,
                        modelType, customHfSpace>>
  /\ Val(prev).donateData # donateData

\* C10: two submissions that differ only in donateData hand the same request
\* (URL and payload) to fetch and end the same way; a donation record is
\* logged only when opted in, once, before the fetch, and holds the two text
\* lengths, the file count and the audio flag and nothing else.
C10_TelemetryNonInterference ==
  /\ PairedCall =>
       /\ wire # <<>> => wire = Val(prev).wire
       /\ pc = "done" =>
            /\ wire = Val(prev).wire
            /\ outcome = Val(prev).outcome
            /\ thrown = Val(prev).thrown
            /\ result = Val(prev).result
            /\ analysisResult = Val(prev).analysisResult
            /\ error = Val(prev).error
            /\ isLoading = Val(prev).isLoading
            /\ isSettingsOpen = Val(prev).isSettingsOpen
  /\ sink # <<>> =>
       /\ request.donateData
       /\ sink = <<[historyLength |-> Len(request.history),
                    examLength |-> Len(request.examination),
                    fileCount |-> Len(request.files),
                    audioAttached |-> request.audioBlob # Null]>>
       /\ IndexOfEvent(trace, "log", 1) > 0
  /\ wire # <<>> =>
       /\ request.donateData => sink # <<>>
       /\ sink # <<>> =>
            IndexOfEvent(trace, "log", 1) < IndexOfEvent(trace, "fetch", 1)

C10_Witness ==
  /\ PairedCall
  /\ pc = "done"
  /\ outcome = "returned"
  /\ donateData
  /\ sink # <<>>
  /\ Len(wire) = 1
  /\ Len(files) = 2
  /\ history # ""
  /\ ~IsNull(audioBlob)
  /\ Val(prev).wire = wire

\* C11: every error raised during a submission (missing key, failed read,
\* upstream, empty result, network) is caught by handleAnalyze and shown as
\* a non-null error string, none is left uncaught; a refused click shows its
\* message too; when the handler is done, and whenever no call runs,
\* isLoading is false.
C11_ErrorsSurfaced ==
  /\ uncaught = <<>>
  /\ Failed => pc \in {"catch", "done"}
  /\ pc \in {"idle", "done"} => ~isLoading
  /\ (pc = "done" /\ Failed) =>
       /\ outcome = "threw"
       /\ ~IsNull(error)
       /\ Val(error) = IF Val(thrown).name = "ProgressEvent"
                       THEN "[object ProgressEvent]"
                       ELSE Val(thrown).message
  /\ (pc = "done" /\ outcome = "rejected") => error = Some(MsgAddKey)
  /\ (pc = "done" /\ outcome = "threw") => Failed

\* the reads of files i..n, each completed before the next starts
RECURSIVE FileEvents(_, _)
FileEvents(i, n) ==
  IF i > n THEN <<>>
  ELSE <<Ev("read", i), Ev("loaded", i)>> \o FileEvents(i + 1, n)

\* the operations of a call that runs to its fetch, in the order of the claim
FullTrace(req) ==
  FileEvents(1, Len(req.files))
    \o (IF IsNull(req.audioBlob) THEN <<>>
        ELSE <<Ev("readAudio", 0), Ev("loadedAudio", 0)>>)
    \o (IF req.donateData THEN <<Ev("log", 0)>> ELSE <<>>)
    \o <<Ev("fetch", 0)>>

\* C12: the operations of a call happen one after the other: each file is
\* read to completion in the files' order, then the audio, then the fetch;
\* there is at most one fetch; a read that fails is the last operation of
\* the call and no fetch is made.
C12_SequentialSteps ==
  LET full == FullTrace(request)
      k == Len(trace)
  IN  /\ Len(wire) <= 1
      /\ Len(wire) = Cardinality({i \in 1..k : trace[i].ev = "fetch"})
      /\ \/ IsPrefix(trace, full)
         \/ /\ k >= 2
            /\ IsPrefix(SubSeq(trace, 1, k - 1), full)
            /\ trace[k - 1].ev \in {"read", "readAudio"}
            /\ trace[k] = IF trace[k - 1].ev = "read"
                          THEN Ev("failed", trace[k - 1].n)
                          ELSE Ev("failedAudio", 0)
            /\ wire = <<>>
            /\ pc \in {"catch", "done"}
            /\ thrown = Some(ReadFailure)

C12_Witness ==
  /\ pc = "done"
  /\ Len(request.files) = 2
  /\ ~IsNull(request.audioBlob)
  /\ request.donateData
  /\ Len(wire) = 1
  /\ Len(trace) = 8
  /\ ~IsNull(response)
  /\ Val(response).kind = "reject"

\* what the steps of a call leave alone: analysisResult changes only when a
\* call returns; a refused click touches neither analysisResult nor
\* isLoading; an accepted click clears error, and error then stays as it is
\* until the catch
FrameStep ==
  /\ pc # "return" => analysisResult' = analysisResult
  /\ (pc = "idle" /\ pc' = "done") =>
       /\ analysisResult' = analysisResult
       /\ isLoading' = isLoading
       /\ ~isLoading'
  /\ (pc = "idle" /\ pc' = "call") => error' = Null
  /\ pc \notin {"idle", "catch"} => error' = error

\* a failing call never passes the return; a call that returned, and any
\* running call before its catch, has a null error
FrameState ==
  /\ pc = "return" => ~Failed
  /\ Failed => outcome # "returned"
  /\ (pc = "done" /\ outcome = "returned") => (error = Null /\ ~IsNull(analysisResult))
  /\ pc \notin {"idle", "catch", "done"} => error = Null

\* a call has failed while the result of an earlier call is kept
FailedAfterSuccess == pc = "done" /\ outcome = "threw" /\ ~IsNull(analysisResult)

====
